---- MODULE Spec2Model ----
(***************************************************************************)
(* Municipal budget ETL pipeline (dags/budget_municipal_etl.py).           *)
(*                                                                         *)
(* The five callables of the DAG are modelled as atomic actions over the   *)
(* artifacts they share: the CSV files under OUTPUT_DIR / PROCESSED_DIR,   *)
(* the XCom key/value channel and the PostgreSQL schema "budget".          *)
(*                                                                         *)
(* A spreadsheet cell is a record [k, n, s]: k is the kind of the cell as  *)
(* it is written in the CSV ("null" = empty, "num" = a plain number,       *)
(* "cur" = a number written with currency symbols / separators, "txt" =    *)
(* any other text).  A column label is a sequence of lower-case words      *)
(* (<<"budget","type">> stands for "budget_type").                         *)
(***************************************************************************)
EXTENDS Integers, Sequences, FiniteSets, TLC

\* ------------------------------------------------------------------ bounds
\* Largest number of data rows in a sheet of the detailed (one sheet) inputs.
MaxRows == 2
\* Largest number of data rows in a sheet of the two-sheet inputs.
MaxRunRows == 1
\* Largest number of invocations of load_budget_data in one behaviour.
MaxLoads == 2

\* datetime.now().year, stamped as fiscal_year
CurrentYear == 2026

\* ------------------------------------------------------------------- cells
Null == [k |-> "null", n |-> 0, s |-> ""]
Num(v) == [k |-> "num", n |-> v, s |-> ""]
Cur(v) == [k |-> "cur", n |-> v, s |-> ""]
Txt(t) == [k |-> "txt", n |-> 0, s |-> t]

IsNull(c) == c.k = "null"

\* ----------------------------------------------------------- generic helpers
RECURSIVE SumSeq(_)
SumSeq(q) == IF q = <<>> THEN 0 ELSE Head(q) + SumSeq(Tail(q))

RECURSIVE Flatten(_)
Flatten(qq) == IF qq = <<>> THEN <<>> ELSE Head(qq) \o Flatten(Tail(qq))

RECURSIVE SeqMax(_)
SeqMax(q) ==
    IF Len(q) = 1 THEN Head(q)
    ELSE LET m == SeqMax(Tail(q)) IN IF Head(q) > m THEN Head(q) ELSE m

RECURSIVE SeqMin(_)
SeqMin(q) ==
    IF Len(q) = 1 THEN Head(q)
    ELSE LET m == SeqMin(Tail(q)) IN IF Head(q) < m THEN Head(q) ELSE m

\* the elements of a finite set of integers, in increasing order
RECURSIVE Ascending(_)
Ascending(S) ==
    IF S = {} THEN <<>>
    ELSE LET m == CHOOSE x \in S : \A y \in S : y <= x
         IN Append(Ascending(S \ {m}), m)

MapSeq(q, F(_)) == [i \in 1..Len(q) |-> F(q[i])]

\* position of column label c in the label list cols (0 when absent)
ColIndex(cols, c) ==
    IF \E j \in 1..Len(cols) : cols[j] = c
    THEN CHOOSE j \in 1..Len(cols) : cols[j] = c
    ELSE 0

\* the cells of column j, top to bottom
Column(rows, j) == [i \in 1..Len(rows) |-> rows[i][j]]

\* ------------------------------------------------------- pandas data frames
\* pd.read_csv: a column is int64/float64 ("num") when every cell is empty or
\* a plain number, and object otherwise; a frame without rows has object
\* columns only.
InferDtype(rows, j) ==
    IF Len(rows) > 0 /\ \A i \in 1..Len(rows) : rows[i][j].k \in {"null", "num"}
    THEN "num" ELSE "object"

ReadCsv(file) ==
    [cols   |-> file.cols,
     dtypes |-> [j \in 1..Len(file.cols) |-> InferDtype(file.rows, j)],
     rows   |-> file.rows]

\* DataFrame.to_csv(index=False)
ToCsv(df) == [cols |-> df.cols, rows |-> df.rows]

\* df.dropna(how='all')
DropEmptyRows(df) ==
    [df EXCEPT !.rows =
        SelectSeq(df.rows, LAMBDA r : \E j \in 1..Len(r) : ~IsNull(r[j]))]

\* the frame reduced to the columns keep (a sequence of column indices)
SelectCols(df, keep) ==
    [cols   |-> [x \in 1..Len(keep) |-> df.cols[keep[x]]],
     dtypes |-> [x \in 1..Len(keep) |-> df.dtypes[keep[x]]],
     rows   |-> [i \in 1..Len(df.rows) |->
                    [x \in 1..Len(keep) |-> df.rows[i][keep[x]]]]]

\* df.dropna(axis=1, how='all')
DropEmptyCols(df) ==
    SelectCols(df, Ascending({j \in 1..Len(df.cols) :
                                 \E i \in 1..Len(df.rows) : ~IsNull(df.rows[i][j])}))

\* pd.to_numeric(str.replace(currency symbols), errors='ignore') on an object
\* column: every cell parses (an empty cell is the text 'nan', which parses
\* to NaN) or the column is returned unchanged.
Parses(rows, j) == \A i \in 1..Len(rows) : rows[i][j].k \in {"null", "num", "cur"}

ParseCell(c) == IF c.k = "cur" THEN Num(c.n) ELSE c

\* df[col] = v for a new column
AddColumn(df, name, dtype, v) ==
    [cols   |-> Append(df.cols, name),
     dtypes |-> Append(df.dtypes, dtype),
     rows   |-> [i \in 1..Len(df.rows) |-> Append(df.rows[i], v)]]

\* df[col] = df[col].fillna(v) for every column whose index satisfies Sel
FillNa(df, Sel(_), v) ==
    [df EXCEPT !.rows =
        [i \in 1..Len(df.rows) |->
            [j \in 1..Len(df.cols) |->
                IF Sel(j) /\ IsNull(df.rows[i][j]) THEN v ELSE df.rows[i][j]]]]

\* ------------------------------------------------- transform_budget_data
MetaSheetSource == <<"sheet", "source">>
MetaProcessedDate == <<"processed", "date">>
MetaFiscalYear == <<"fiscal", "year">>

\* the object columns that pd.to_numeric turns into numbers (numeric_columns)
CoercedCols(df) ==
    {j \in 1..Len(df.cols) : df.dtypes[j] = "object" /\ Parses(df.rows, j)}

\* df[col] = cleaned_series for every column that parsed
CoerceNumeric(df) ==
    LET C == CoercedCols(df)
    IN [cols   |-> df.cols,
        dtypes |-> [j \in 1..Len(df.cols) |-> IF j \in C THEN "num" ELSE df.dtypes[j]],
        rows   |-> [i \in 1..Len(df.rows) |->
                       [j \in 1..Len(df.cols) |->
                           IF j \in C THEN ParseCell(df.rows[i][j]) ELSE df.rows[i][j]]]]

\* "for col in numeric_columns: df[col] = df[col].fillna(0)": numeric_columns
\* holds the coerced columns only
FillNumeric(df, numeric_columns) ==
    FillNa(df, LAMBDA j : \E x \in 1..Len(numeric_columns) : numeric_columns[x] = df.cols[j],
           Num(0))

\* "for col in text_columns: ... fillna('Unknown')"
FillText(df) ==
    FillNa(df, LAMBDA j : /\ df.dtypes[j] = "object"
                          /\ df.cols[j] \notin {MetaSheetSource, MetaProcessedDate},
           Txt("Unknown"))

\* the list numeric_columns, in column order
NumericColumns(df) ==
    LET C == Ascending(CoercedCols(df)) IN [x \in 1..Len(C) |-> df.cols[C[x]]]

\* "Basic data cleaning": the frame read from the raw CSV without its empty
\* rows and columns
CleanSheet(file) == DropEmptyCols(DropEmptyRows(ReadCsv(file)))

\* "Add metadata columns"
AddMetadata(df, sheet_name) ==
    AddColumn(AddColumn(AddColumn(df,
        MetaSheetSource, "object", Txt(sheet_name)),
        MetaProcessedDate, "object", Txt("today")),
        MetaFiscalYear, "num", Num(CurrentYear))

\* the steps of the loop body after the cleaning, on the cleaned frame df
NormalizeSheet(sheet_name, df) ==
    FillText(FillNumeric(AddMetadata(CoerceNumeric(df), sheet_name), NumericColumns(df)))

\* one iteration of the loop of transform_budget_data: the normalized frame
TransformSheet(sheet_name, file) == NormalizeSheet(sheet_name, CleanSheet(file))

\* the entry of transformed_data for the sheet
TransformInfo(sheet_name, file, original_rows) ==
    [original_rows   |-> original_rows,
     cleaned_rows    |-> Len(TransformSheet(sheet_name, file).rows),
     numeric_columns |-> NumericColumns(CleanSheet(file)),
     total_columns   |-> Len(TransformSheet(sheet_name, file).cols)]

\* ------------------------------------------------------ load_budget_data
Contains(col, kw) == \E x \in 1..Len(col) : col[x] = kw

\* the if/elif chain that fills column_mapping ("none": the column gets no entry)
ColumnRole(col) ==
    IF \E kw \in {"amount", "budget", "cost", "expense", "revenue", "income"} :
           Contains(col, kw)
    THEN "budget_amount"
    ELSE IF Contains(col, "category") \/ Contains(col, "type") THEN "budget_category"
    ELSE IF Contains(col, "item") \/ Contains(col, "description") THEN "budget_item"
    ELSE IF Contains(col, "department") \/ Contains(col, "dept") THEN "department"
    ELSE IF Contains(col, "code") \/ Contains(col, "account") THEN "account_code"
    ELSE "none"

\* a variant without the exclusion list: every int64/float64 column
NumericColsWithYear(df) ==
    Ascending({j \in 1..Len(df.cols) : df.dtypes[j] = "num"})

\* numeric_cols: the int64/float64 columns other than fiscal_year, processed_date
NumericCols(df) ==
    Ascending({j \in 1..Len(df.cols) :
                  /\ df.dtypes[j] = "num"
                  /\ df.cols[j] \notin {MetaFiscalYear, MetaProcessedDate}})

\* a variant that keeps the zero cells: pd.notna(row[col]) alone
EmitsAnyValue(c) == ~IsNull(c)

\* pd.notna(row[col]) and row[col] != 0
Emits(c) == ~IsNull(c) /\ c.n # 0

\* a variant of new_row that takes the role of the column for the category
\* only when that role is budget_category
NewRowCategoryRoleOnly(df, i, j) ==
    LET col == df.cols[j]
        row == df.rows[i]
        mapped == ColumnRole(col) # "none"
    IN [sheet_source       |-> row[ColIndex(df.cols, MetaSheetSource)].s,
        fiscal_year        |-> row[ColIndex(df.cols, MetaFiscalYear)].n,
        budget_category    |-> IF ColumnRole(col) = "budget_category"
                               THEN "budget_category" ELSE "General",
        budget_item        |-> [col |-> col, idx |-> IF mapped THEN i - 1 ELSE -1],
        budget_amount      |-> row[j].n,
        budget_description |-> "Budget item from column",
        department         |-> "Municipal",
        account_code       |-> [idx |-> i - 1, col |-> col]]

\* new_row for row i (index label i - 1) and numeric column j
NewRow(df, i, j) ==
    LET col == df.cols[j]
        row == df.rows[i]
        mapped == ColumnRole(col) # "none"
    IN [sheet_source       |-> row[ColIndex(df.cols, MetaSheetSource)].s,
        fiscal_year        |-> row[ColIndex(df.cols, MetaFiscalYear)].n,
        budget_category    |-> IF mapped THEN ColumnRole(col) ELSE "General",
        budget_item        |-> [col |-> col, idx |-> IF mapped THEN i - 1 ELSE -1],
        budget_amount      |-> row[j].n,
        budget_description |-> "Budget item from column",
        department         |-> "Municipal",
        account_code       |-> [idx |-> i - 1, col |-> col]]

\* expanded_rows: rows outermost, numeric columns innermost
ExpandedRows(df) ==
    LET nc == NumericCols(df)
        OfRow(i) == Flatten([x \in 1..Len(nc) |->
                        IF Emits(df.rows[i][nc[x]]) THEN <<NewRow(df, i, nc[x])>> ELSE <<>>])
    IN Flatten([i \in 1..Len(df.rows) |-> OfRow(i)])

\* a variant that builds a single placeholder record for the whole sheet
PlaceholderOnce(df, description) ==
    IF df.rows = <<>> THEN <<>>
    ELSE << [sheet_source       |-> df.rows[1][ColIndex(df.cols, MetaSheetSource)].s,
             fiscal_year        |-> df.rows[1][ColIndex(df.cols, MetaFiscalYear)].n,
             budget_category    |-> "General",
             budget_item        |-> [col |-> <<"item", "from", "sheet">>, idx |-> -1],
             budget_amount      |-> 0,
             budget_description |-> description,
             department         |-> "Municipal",
             account_code       |-> [idx |-> -1, col |-> <<"general">>]] >>

\* the first three columns of db_df plus the constant columns assigned to it:
\* one record per row of the sheet
PlaceholderRows(df, description) ==
    [i \in 1..Len(df.rows) |->
        [sheet_source       |-> df.rows[i][ColIndex(df.cols, MetaSheetSource)].s,
         fiscal_year        |-> df.rows[i][ColIndex(df.cols, MetaFiscalYear)].n,
         budget_category    |-> "General",
         budget_item        |-> [col |-> <<"item", "from", "sheet">>, idx |-> -1],
         budget_amount      |-> 0,
         budget_description |-> description,
         department         |-> "Municipal",
         account_code       |-> [idx |-> -1, col |-> <<"general">>]]]

\* db_df as it stands before the insert, given expanded_rows
DbFrame(df, expanded_rows) ==
    IF NumericCols(df) # <<>>
    THEN IF expanded_rows # <<>>
         THEN expanded_rows
         ELSE PlaceholderRows(df, "Data from sheet")
    ELSE PlaceholderRows(df, "Non-numeric data from sheet")

FactRows(df) == DbFrame(df, ExpandedRows(df))

\* the non-null values of the numeric columns, column by column
NumericValues(df, j) ==
    LET cells == SelectSeq(Column(df.rows, j), LAMBDA c : ~IsNull(c))
    IN [x \in 1..Len(cells) |-> cells[x].n]

AllNumericValues(df) ==
    LET nc == NumericCols(df)
    IN Flatten([x \in 1..Len(nc) |-> NumericValues(df, nc[x])])

\* df[numeric_cols].mean().mean() as the fraction num/den (not reduced):
\* the mean of the column means
RECURSIVE SumOfMeans(_, _)
SumOfMeans(df, nc) ==
    IF nc = <<>> THEN [num |-> 0, den |-> 1]
    ELSE LET v == NumericValues(df, Head(nc))
             rest == SumOfMeans(df, Tail(nc))
         IN [num |-> SumSeq(v) * rest.den + rest.num * Len(v), den |-> Len(v) * rest.den]

MeanOfMeans(df) ==
    LET nc == NumericCols(df)
        t == SumOfMeans(df, nc)
    IN [num |-> t.num, den |-> t.den * Len(nc)]

\* a variant whose summary of a sheet without numeric columns counts no record
SummaryOfZeroRecords(sheet_name, df, numeric_cols, values) ==
    IF numeric_cols # <<>>
    THEN [sheet_name            |-> sheet_name,
          total_records         |-> Len(df.rows),
          numeric_columns_count |-> Len(numeric_cols),
          total_budget_amount   |-> SumSeq(values),
          max_budget_item       |-> SeqMax(values),
          min_budget_item       |-> SeqMin(values),
          average_budget_item   |-> MeanOfMeans(df)]
    ELSE [sheet_name            |-> sheet_name,
          total_records         |-> 0,
          numeric_columns_count |-> 0,
          total_budget_amount   |-> 0,
          max_budget_item       |-> 0,
          min_budget_item       |-> 0,
          average_budget_item   |-> [num |-> 0, den |-> 1]]

\* sheet_summary, given numeric_cols and the values of df[numeric_cols]
SummaryOf(sheet_name, df, numeric_cols, values) ==
    IF numeric_cols # <<>>
    THEN [sheet_name            |-> sheet_name,
          total_records         |-> Len(df.rows),
          numeric_columns_count |-> Len(numeric_cols),
          total_budget_amount   |-> SumSeq(values),
          max_budget_item       |-> SeqMax(values),
          min_budget_item       |-> SeqMin(values),
          average_budget_item   |-> MeanOfMeans(df)]
    ELSE [sheet_name            |-> sheet_name,
          total_records         |-> Len(df.rows),
          numeric_columns_count |-> 0,
          total_budget_amount   |-> 0,
          max_budget_item       |-> 0,
          min_budget_item       |-> 0,
          average_budget_item   |-> [num |-> 0, den |-> 1]]

SheetSummary(sheet_name, df) ==
    SummaryOf(sheet_name, df, NumericCols(df), AllNumericValues(df))

\* ------------------------------------------------------ the PostgreSQL store
TableNames == {"budget_data", "budget_summary", "etl_audit"}

\* the table each index of create_tables_sql is created on
IndexTable ==
    [idx_budget_data_sheet_source    |-> "budget_data",
     idx_budget_data_fiscal_year     |-> "budget_data",
     idx_budget_data_processed_date  |-> "budget_data",
     idx_budget_summary_fiscal_year  |-> "budget_summary"]

NoTable == [exists |-> FALSE, rows |-> <<>>]
EmptyTable == [exists |-> TRUE, rows |-> <<>>]

\* a database in which the schema "budget" was never created
EmptyDatabase ==
    [schema |-> FALSE, tables |-> [t \in TableNames |-> NoTable], indexes |-> {}]

Stmt(op, table, index) == [op |-> op, table |-> table, index |-> index]

\* a variant of the script that forgets the audit table
CreateTablesSqlNoAudit ==
    << Stmt("CREATE SCHEMA IF NOT EXISTS", "", ""),
       Stmt("DROP TABLE IF EXISTS CASCADE", "budget_summary", ""),
       Stmt("DROP TABLE IF EXISTS CASCADE", "budget_data", ""),
       Stmt("CREATE TABLE", "budget_data", ""),
       Stmt("CREATE TABLE", "budget_summary", ""),
       Stmt("CREATE INDEX", "budget_data", "idx_budget_data_sheet_source"),
       Stmt("CREATE INDEX", "budget_data", "idx_budget_data_fiscal_year"),
       Stmt("CREATE INDEX", "budget_data", "idx_budget_data_processed_date"),
       Stmt("CREATE INDEX", "budget_summary", "idx_budget_summary_fiscal_year") >>

\* create_tables_sql, statement by statement
CreateTablesSql ==
    << Stmt("CREATE SCHEMA IF NOT EXISTS", "", ""),
       Stmt("DROP TABLE IF EXISTS CASCADE", "budget_summary", ""),
       Stmt("DROP TABLE IF EXISTS CASCADE", "budget_data", ""),
       Stmt("DROP TABLE IF EXISTS CASCADE", "etl_audit", ""),
       Stmt("CREATE TABLE", "budget_data", ""),
       Stmt("CREATE TABLE", "budget_summary", ""),
       Stmt("CREATE TABLE", "etl_audit", ""),
       Stmt("CREATE INDEX", "budget_data", "idx_budget_data_sheet_source"),
       Stmt("CREATE INDEX", "budget_data", "idx_budget_data_fiscal_year"),
       Stmt("CREATE INDEX", "budget_data", "idx_budget_data_processed_date"),
       Stmt("CREATE INDEX", "budget_summary", "idx_budget_summary_fiscal_year") >>

\* PostgreSQL's answer to one statement: [ok, db]
ExecStmt(d, st) ==
    CASE st.op = "CREATE SCHEMA IF NOT EXISTS" ->
            [ok |-> TRUE, db |-> [d EXCEPT !.schema = TRUE]]
      [] st.op = "DROP TABLE IF EXISTS CASCADE" ->
            [ok |-> TRUE,
             db |-> [d EXCEPT !.tables[st.table] = NoTable,
                              !.indexes = {x \in d.indexes : IndexTable[x] # st.table}]]
      [] st.op = "CREATE TABLE" ->
            IF d.schema /\ ~d.tables[st.table].exists
            THEN [ok |-> TRUE, db |-> [d EXCEPT !.tables[st.table] = EmptyTable]]
            ELSE [ok |-> FALSE, db |-> d]
      [] st.op = "CREATE INDEX" ->
            IF d.tables[st.table].exists /\ st.index \notin d.indexes
            THEN [ok |-> TRUE, db |-> [d EXCEPT !.indexes = d.indexes \cup {st.index}]]
            ELSE [ok |-> FALSE, db |-> d]

\* "with engine.begin() as conn: conn.execute(text(script))": all statements
\* commit together, or the first error rolls all of them back
RECURSIVE RunStatements(_, _)
RunStatements(d, script) ==
    IF script = <<>> THEN [ok |-> TRUE, db |-> d]
    ELSE LET r == ExecStmt(d, Head(script))
         IN IF r.ok THEN RunStatements(r.db, Tail(script)) ELSE r

Transaction(d, script) ==
    LET r == RunStatements(d, script)
    IN IF r.ok THEN r ELSE [ok |-> FALSE, db |-> d]

\* a variant with if_exists='replace': the table is dropped and rewritten
ToSqlReplace(d, table, rows) ==
    [d EXCEPT !.tables[table] = [exists |-> TRUE, rows |-> rows]]

\* DataFrame.to_sql(name, schema='budget', if_exists='append'): creates the
\* table when it is absent, then appends
ToSqlAppend(d, table, rows) ==
    [d EXCEPT !.tables[table] = [exists |-> TRUE, rows |-> d.tables[table].rows \o rows]]

\* INSERT INTO budget.etl_audit: fails when the table is absent
AuditInsertable(d) == d.tables["etl_audit"].exists

AuditInsert(d, row) ==
    [d EXCEPT !.tables["etl_audit"].rows = Append(@, row)]

\* -------------------------------------------------------------------- state
VARIABLES
    workbook,   \* the sheets of Budget_municipal.xlsx, in file order
    files,      \* the artifacts under OUTPUT_DIR and PROCESSED_DIR
    xcom,       \* the values pushed to XCom (<<>> = never pushed)
    db,         \* the PostgreSQL database
    result,     \* how the last invoked callable ended
    loads       \* invocations of load_budget_data so far

vars == <<workbook, files, xcom, db, result, loads>>

NoFile == [exists |-> FALSE, cols |-> <<>>, rows |-> <<>>]
Written(csv) == [exists |-> TRUE, cols |-> csv.cols, rows |-> csv.rows]

SheetNames == {"S1", "S2"}

\* the row count of every table (-1: the table does not exist)
Snapshot(d) ==
    [t \in TableNames |-> IF d.tables[t].exists THEN Len(d.tables[t].rows) ELSE -1]

NoError == [at |-> "none", sheet |-> 0]

\* swallowed: the exceptions the callable caught and did not raise again
Result(task, outcome, error, before, value, swallowed) ==
    [task |-> task, outcome |-> outcome, error |-> error, before |-> before,
     value |-> value, swallowed |-> swallowed]

\* ---------------------------------------------------- extract_budget_data
\* every sheet is written to raw_<sheet>.csv; sheet_info keeps the dict order
ExtractBudgetData ==
    /\ xcom.sheet_info = <<>>
    /\ files' = [files EXCEPT !.raw =
                    [n \in SheetNames |->
                        IF \E k \in 1..Len(workbook) : workbook[k].name = n
                        THEN LET k == CHOOSE k \in 1..Len(workbook) : workbook[k].name = n
                             IN Written(workbook[k])
                        ELSE files.raw[n]]]
    /\ xcom' = [xcom EXCEPT !.sheet_info =
                   << [k \in 1..Len(workbook) |->
                          [sheet_name |-> workbook[k].name,
                           rows       |-> Len(workbook[k].rows),
                           columns    |-> Len(workbook[k].cols)]] >>]
    /\ result' = Result("extract_data", "returned", NoError, Snapshot(db), "", 0)
    /\ UNCHANGED <<workbook, db, loads>>

\* -------------------------------------------------- transform_budget_data
TransformBudgetData ==
    /\ xcom.sheet_info # <<>>
    /\ xcom.transformed_data = <<>>
    /\ LET sheet_info == xcom.sheet_info[1]
       IN /\ \A k \in 1..Len(sheet_info) : files.raw[sheet_info[k].sheet_name].exists
          /\ files' = [files EXCEPT !.processed =
                [n \in SheetNames |->
                    IF \E k \in 1..Len(sheet_info) : sheet_info[k].sheet_name = n
                    THEN Written(ToCsv(TransformSheet(n, files.raw[n])))
                    ELSE files.processed[n]]]
          /\ xcom' = [xcom EXCEPT !.transformed_data =
                << [k \in 1..Len(sheet_info) |->
                       [sheet_name |-> sheet_info[k].sheet_name,
                        info |-> TransformInfo(sheet_info[k].sheet_name,
                                               files.raw[sheet_info[k].sheet_name],
                                               sheet_info[k].rows)]] >>]
    /\ result' = Result("transform_data", "returned", NoError, Snapshot(db), "", 0)
    /\ UNCHANGED <<workbook, db, loads>>

\* ------------------------------------------------- create_database_tables
\* unreachable: the connection cannot be opened, nothing is executed
CreateDatabaseTables(unreachable) ==
    /\ \E r \in {IF unreachable THEN [ok |-> FALSE, db |-> db]
                 ELSE Transaction(db, CreateTablesSql)} :
          /\ db' = r.db
          /\ result' = Result("create_database_tables",
                              IF r.ok THEN "returned" ELSE "raised",
                              IF r.ok THEN NoError ELSE [at |-> "ddl", sheet |-> 0],
                              Snapshot(db), "", 0)
    /\ UNCHANGED <<workbook, files, xcom, loads>>

\* ------------------------------------------------------- load_budget_data
\* the calls of the loader that are let fail: the insert of the facts or of
\* the summary of the k-th sheet, and the final xcom_push
Fault(at, sheet) == [at |-> at, sheet |-> sheet]

FaultPoints(n) ==
    {NoError} \cup {Fault("xcom_push", 0)}
              \cup {Fault(a, k) : a \in {"facts", "summary"}, k \in 1..n}

\* the row of budget.etl_audit written at the end of the try block
SuccessAudit(total_records_loaded) ==
    [task_id |-> "load_data", status |-> "SUCCESS",
     records_processed |-> <<total_records_loaded>>, error_message |-> <<>>]

\* the row of budget.etl_audit written by the except block
FailedAudit(e) ==
    [task_id |-> "load_data", status |-> "FAILED",
     records_processed |-> <<>>, error_message |-> <<e>>]

\* the row of budget.budget_summary for a sheet
SummaryRow(sheet_summary) ==
    [sheet_name          |-> sheet_summary.sheet_name,
     fiscal_year         |-> CurrentYear,
     total_records       |-> sheet_summary.total_records,
     total_budget_amount |-> sheet_summary.total_budget_amount,
     max_budget_item     |-> sheet_summary.max_budget_item,
     min_budget_item     |-> sheet_summary.min_budget_item,
     average_budget_item |-> sheet_summary.average_budget_item]

\* the body of "for sheet_name, info in transformed_data.items()" for the
\* k-th sheet: acc = [db, loaded, summaries, error] as the previous sheets
\* left them; the first exception leaves the loop
\* "Insert data into PostgreSQL": skipped when db_df is empty
InsertFacts(d, db_df) ==
    IF db_df # <<>> THEN ToSqlAppend(d, "budget_data", db_df) ELSE d

\* a variant that makes the two inserts of a sheet in one transaction: a
\* failed summary insert takes the facts of the sheet back
PersistSheetOneTransaction(acc, k, fault, db_df, sheet_summary) ==
    IF (db_df # <<>> /\ fault = Fault("facts", k)) \/ fault = Fault("summary", k)
    THEN [acc EXCEPT !.error = <<fault>>]
    ELSE [db        |-> ToSqlAppend(InsertFacts(acc.db, db_df), "budget_summary",
                                    <<SummaryRow(sheet_summary)>>),
          loaded    |-> acc.loaded + Len(db_df),
          summaries |-> Append(acc.summaries, sheet_summary),
          error     |-> <<>>]

\* the two inserts of the loop body, given db_df and sheet_summary
PersistSheet(acc, k, fault, db_df, sheet_summary) ==
    IF db_df # <<>> /\ fault = Fault("facts", k)
    THEN [acc EXCEPT !.error = <<fault>>]
    ELSE IF fault = Fault("summary", k)
    THEN [acc EXCEPT !.db = InsertFacts(acc.db, db_df),
                     !.loaded = acc.loaded + Len(db_df),
                     !.error = <<fault>>]
    ELSE [db        |-> ToSqlAppend(InsertFacts(acc.db, db_df), "budget_summary",
                                    <<SummaryRow(sheet_summary)>>),
          loaded    |-> acc.loaded + Len(db_df),
          summaries |-> Append(acc.summaries, sheet_summary),
          error     |-> <<>>]

LoadSheet(acc, sheet_name, k, fault, processed) ==
    IF ~processed[sheet_name].exists
    THEN [acc EXCEPT !.error = <<Fault("read_csv", k)>>]
    ELSE PersistSheet(acc, k, fault,
                      FactRows(ReadCsv(processed[sheet_name])),
                      SheetSummary(sheet_name, ReadCsv(processed[sheet_name])))

\* a variant that goes on with the next sheet after a failed insert and
\* raises the first error at the end
RECURSIVE LoadSheetsContinue(_, _, _, _, _)
LoadSheetsContinue(acc, transformed_data, k, fault, processed) ==
    IF k > Len(transformed_data) THEN acc
    ELSE LoadSheetsContinue(
             [LoadSheet([acc EXCEPT !.error = <<>>], transformed_data[k].sheet_name, k,
                        fault, processed)
                 EXCEPT !.error = IF acc.error # <<>> THEN acc.error ELSE @],
             transformed_data, k + 1, fault, processed)

RECURSIVE LoadSheets(_, _, _, _, _)
LoadSheets(acc, transformed_data, k, fault, processed) ==
    IF k > Len(transformed_data) \/ acc.error # <<>> THEN acc
    ELSE LoadSheets(LoadSheet(acc, transformed_data[k].sheet_name, k, fault, processed),
                    transformed_data, k + 1, fault, processed)

\* overall_summary
OverallSummary(transformed_data, acc) ==
    [total_sheets_processed     |-> Len(transformed_data),
     total_records_processed    |->
         SumSeq([k \in 1..Len(transformed_data) |-> transformed_data[k].info.cleaned_rows]),
     total_records_loaded_to_db |-> acc.loaded,
     sheets_summary             |-> acc.summaries]

\* the audit INSERT of either block fails when the table is absent, or when
\* the statement is let fail (its status is among auditFaults)
AuditFails(d, row, auditFaults) ==
    ~AuditInsertable(d) \/ row.status \in auditFaults

\* "try: ... conn.execute(text(audit_sql), ...) except: ...": the row is added
\* unless the INSERT fails
TryAudit(d, row, auditFaults) ==
    IF AuditFails(d, row, auditFaults) THEN d ELSE AuditInsert(d, row)

Swallowed(d, row, auditFaults) == IF AuditFails(d, row, auditFaults) THEN 1 ELSE 0

\* "Combine all data if multiple sheets"
WriteCombined(fls, transformed_data) ==
    [fls EXCEPT !.combined = @ \/ Len(transformed_data) > 1]

\* budget_summary_report.json
WriteReport(fls, overall_summary) == [fls EXCEPT !.report = <<overall_summary>>]

\* the try block after the loop over the sheets left acc: [db, files,
\* pushed, error, swallowed]; pushed is the load_summary handed to xcom_push,
\* error the exception that left the block
AfterLoop(fls, transformed_data, fault, auditFaults, acc) ==
    IF acc.error # <<>>
    THEN [db |-> acc.db, files |-> fls, pushed |-> <<>>, error |-> acc.error,
          swallowed |-> 0]
    ELSE [db     |-> TryAudit(acc.db, SuccessAudit(acc.loaded), auditFaults),
          files  |-> WriteReport(WriteCombined(fls, transformed_data),
                                 OverallSummary(transformed_data, acc)),
          pushed |-> IF fault.at = "xcom_push" THEN <<>>
                     ELSE <<OverallSummary(transformed_data, acc)>>,
          error  |-> IF fault.at = "xcom_push" THEN <<fault>> ELSE <<>>,
          swallowed |-> Swallowed(acc.db, SuccessAudit(acc.loaded), auditFaults)]

TryBlock(d, fls, transformed_data, fault, auditFaults) ==
    AfterLoop(fls, transformed_data, fault, auditFaults,
              LoadSheets([db |-> [d EXCEPT !.schema = TRUE], loaded |-> 0,
                          summaries |-> <<>>, error |-> <<>>],
                         transformed_data, 1, fault, fls.processed))

\* a variant of the except block that writes no audit row
ExceptBlockNoAudit(r, auditFaults) == r

\* a variant of the except block without its inner "except: pass": a failed
\* audit INSERT replaces the error being raised
ExceptBlockAuditRaises(r, auditFaults) ==
    IF r.error = <<>> THEN r
    ELSE [r EXCEPT !.db = TryAudit(r.db, FailedAudit(r.error[1]), auditFaults),
                   !.error = IF AuditFails(r.db, FailedAudit(r.error[1]), auditFaults)
                             THEN <<Fault("audit", 0)>> ELSE @]

\* "except Exception as e": the FAILED audit row is attempted, a failure of
\* that INSERT is passed over, and e is raised again
ExceptBlock(r, auditFaults) ==
    IF r.error = <<>> THEN r
    ELSE [r EXCEPT !.db = TryAudit(r.db, FailedAudit(r.error[1]), auditFaults),
                   !.swallowed = @ + Swallowed(r.db, FailedAudit(r.error[1]), auditFaults)]

LoadBudgetData(fault, auditFaults) ==
    /\ xcom.transformed_data # <<>>
    /\ loads < MaxLoads
    /\ \E r \in {ExceptBlock(TryBlock(db, files, xcom.transformed_data[1], fault,
                                      auditFaults), auditFaults)} :
          /\ db' = r.db
          /\ files' = r.files
          /\ xcom' = [xcom EXCEPT !.load_summary = IF r.pushed # <<>> THEN r.pushed ELSE @]
          /\ result' = Result("load_data",
                              IF r.error = <<>> THEN "returned" ELSE "raised",
                              IF r.error = <<>> THEN NoError ELSE r.error[1],
                              Snapshot(db), "", r.swallowed)
    /\ loads' = loads + 1
    /\ UNCHANGED workbook

\* ---------------------------------------------------- validate_etl_process
\* expected_files, as the existence of each: raw and transformed file of every
\* sheet of transformed_data, then the summary report
ExpectedFiles(fls, transformed_data) ==
    Flatten([k \in 1..Len(transformed_data) |->
                << fls.raw[transformed_data[k].sheet_name].exists,
                   fls.processed[transformed_data[k].sheet_name].exists >>])
    \o << fls.report # <<>> >>

\* "for file_path in expected_files": a missing file sets WARNING
RECURSIVE FileChecks(_, _)
FileChecks(status, exist) ==
    IF exist = <<>> THEN status
    ELSE FileChecks(IF Head(exist) THEN status ELSE "WARNING", Tail(exist))

\* the data quality check, made after the file checks
RecordCheck(status, total_processed_records) ==
    IF total_processed_records > 0 THEN status ELSE "ERROR"

\* a variant that makes the data quality check before the file checks
ValidationStatusRecordsFirst(exist, total_processed_records) ==
    FileChecks(RecordCheck("SUCCESS", total_processed_records), exist)

\* validation_results['status']
ValidationStatus(exist, total_processed_records) ==
    RecordCheck(FileChecks("SUCCESS", exist), total_processed_records)

ValidateEtlProcess ==
    /\ xcom.transformed_data # <<>>
    /\ xcom.load_summary # <<>>
    /\ LET status == ValidationStatus(ExpectedFiles(files, xcom.transformed_data[1]),
                                      xcom.load_summary[1].total_records_processed)
       IN /\ files' = [files EXCEPT !.validation = <<status>>]
          /\ result' = Result("validate_etl", "returned", NoError, Snapshot(db), status, 0)
    /\ UNCHANGED <<workbook, xcom, db, loads>>

\* an artifact is removed from the shared directories between two tasks
RemoveArtifact ==
    /\ xcom.load_summary # <<>>
    /\ files.validation = <<>>
    /\ \/ \E n \in SheetNames :
             /\ files.raw[n].exists
             /\ files' = [files EXCEPT !.raw[n] = NoFile]
       \/ \E n \in SheetNames :
             /\ files.processed[n].exists
             /\ files' = [files EXCEPT !.processed[n] = NoFile]
       \/ /\ files.report # <<>>
          /\ files' = [files EXCEPT !.report = <<>>]
    /\ UNCHANGED <<workbook, xcom, db, result, loads>>

\* ------------------------------------------------------------ specifications
\* the sheets with the labels header, at most maxRows rows, cells from cells
SheetsOver(header, maxRows, cells) ==
    UNION {[1..r -> [1..Len(header) -> cells]] : r \in 0..maxRows}

InitialState(wb) ==
    /\ workbook = wb
    /\ files = [raw |-> [n \in SheetNames |-> NoFile],
                processed |-> [n \in SheetNames |-> NoFile],
                combined |-> FALSE, report |-> <<>>, validation |-> <<>>]
    /\ xcom = [sheet_info |-> <<>>, transformed_data |-> <<>>, load_summary |-> <<>>]
    /\ db = EmptyDatabase
    /\ result = Result("none", "none", NoError, Snapshot(EmptyDatabase), "", 0)
    /\ loads = 0

\* Two-sheet workbooks with one column each; every call of the loader and of
\* the schema initializer may fail, and the loader may be invoked again.
RunCells == {Num(2), Txt("A")}
RunHeader == << <<"amount">> >>

Init ==
    \E r1, r2 \in SheetsOver(RunHeader, MaxRunRows, RunCells) :
        InitialState(<< [name |-> "S1", cols |-> RunHeader, rows |-> r1],
                        [name |-> "S2", cols |-> RunHeader, rows |-> r2] >>)

Next ==
    \/ ExtractBudgetData
    \/ TransformBudgetData
    \/ \E unreachable \in BOOLEAN : CreateDatabaseTables(unreachable)
    \/ \E fault \in FaultPoints(Len(workbook)), auditFaults \in SUBSET {"SUCCESS", "FAILED"} :
          LoadBudgetData(fault, auditFaults)
    \/ ValidateEtlProcess

Spec == Init /\ [][Next]_vars

\* One-sheet workbooks with two columns and every combination of cell kinds;
\* no call fails.
DataCells == {Null, Num(0), Num(2), Cur(3), Txt("A")}
DataHeaders == { << <<"amount">>, <<"type">> >>, << <<"qty">>, <<"dept", "code">> >> }

InitData ==
    \E header \in DataHeaders :
        \E rows \in SheetsOver(header, MaxRows, DataCells) :
            InitialState(<< [name |-> "S1", cols |-> header, rows |-> rows] >>)

NextData ==
    \/ ExtractBudgetData
    \/ TransformBudgetData
    \/ LoadBudgetData(NoError, {})

SpecData == InitData /\ [][NextData]_vars

\* Two-sheet workbooks; no call fails, and artifacts may disappear before the
\* validation runs.
InitValidate == Init

NextValidate ==
    \/ ExtractBudgetData
    \/ TransformBudgetData
    \/ LoadBudgetData(NoError, {})
    \/ RemoveArtifact
    \/ ValidateEtlProcess

SpecValidate == InitValidate /\ [][NextValidate]_vars

\* ------------------------------------------------------ notions of the claims
FactTable == db.tables["budget_data"].rows
SummaryTable == db.tables["budget_summary"].rows
AuditTable == db.tables["etl_audit"].rows

\* the rows of table t that the last invoked callable added
Added(t) ==
    SubSeq(db.tables[t].rows,
           (IF result.before[t] < 0 THEN 0 ELSE result.before[t]) + 1,
           Len(db.tables[t].rows))

LoadReturned == result.task = "load_data" /\ result.outcome = "returned"
LoadRaised == result.task = "load_data" /\ result.outcome = "raised"

\* the sheets handed to the loader, and the normalized sheet of each as the
\* loader reads it
LoadedSheets ==
    IF xcom.transformed_data = <<>> THEN {}
    ELSE {xcom.transformed_data[1][k].sheet_name : k \in 1..Len(xcom.transformed_data[1])}

Normalized(n) == ReadCsv(files.processed[n])

\* the fact rows the last load inserted for sheet n
FactsOf(n) == SelectSeq(Added("budget_data"), LAMBDA r : r.sheet_source = n)

\* the (row, numeric column) positions of a normalized sheet: the columns of
\* numbers other than fiscal_year and processed_date
NumericPositions(df) ==
    {p \in (1..Len(df.rows)) \X (1..Len(df.cols)) :
        /\ df.dtypes[p[2]] = "num"
        /\ df.cols[p[2]] # MetaFiscalYear
        /\ df.cols[p[2]] # MetaProcessedDate}

HasNumericColumn(df) == NumericPositions(df) # {}

\* the positions whose value is non-null and non-zero
NonZeroPositions(df) ==
    {p \in NumericPositions(df) :
        df.rows[p[1]][p[2]].k # "null" /\ df.rows[p[1]][p[2]].n # 0}

\* C1 (as claimed): for every sheet with a numeric column, the number of fact
\* rows the loader inserts equals the number of (row, numeric column) pairs
\* with a non-null, non-zero value.
C1_ExactReshape ==
    LoadReturned =>
        \A n \in LoadedSheets :
            HasNumericColumn(Normalized(n)) =>
                Len(FactsOf(n)) = Cardinality(NonZeroPositions(Normalized(n)))

\* C1 (amended): the count is exact whenever some value is non-null and
\* non-zero; when none is, the loader inserts one row with budget_amount 0
\* per row of the sheet.
C1_ExactReshapeOrFallback ==
    LoadReturned =>
        \A n \in LoadedSheets :
            HasNumericColumn(Normalized(n)) =>
                IF NonZeroPositions(Normalized(n)) # {}
                THEN Len(FactsOf(n)) = Cardinality(NonZeroPositions(Normalized(n)))
                ELSE /\ Len(FactsOf(n)) = Len(Normalized(n).rows)
                     /\ \A x \in 1..Len(FactsOf(n)) : FactsOf(n)[x].budget_amount = 0

\* a load of a sheet with two numeric columns of which some cells, not all,
\* are zero or null
C1_Witness ==
    /\ LoadReturned
    /\ \E n \in LoadedSheets :
          /\ Cardinality(NonZeroPositions(Normalized(n))) >= 2
          /\ NonZeroPositions(Normalized(n)) # NumericPositions(Normalized(n))
          /\ Len(FactsOf(n)) = Cardinality(NonZeroPositions(Normalized(n)))

\* C2 (as claimed): for every sheet without numeric columns the loader emits
\* exactly one placeholder row, with budget_amount 0.
C2_OnePlaceholder ==
    LoadReturned =>
        \A n \in LoadedSheets :
            ~HasNumericColumn(Normalized(n)) =>
                /\ Len(FactsOf(n)) = 1
                /\ FactsOf(n)[1].budget_amount = 0

\* C2 (amended): for every sheet without numeric columns the loader emits one
\* placeholder row per row of the sheet, each with budget_amount 0.
C2_PlaceholderPerRow ==
    LoadReturned =>
        \A n \in LoadedSheets :
            ~HasNumericColumn(Normalized(n)) =>
                /\ Len(FactsOf(n)) = Len(Normalized(n).rows)
                /\ \A x \in 1..Len(FactsOf(n)) :
                      /\ FactsOf(n)[x].budget_amount = 0
                      /\ FactsOf(n)[x].budget_description = "Non-numeric data from sheet"

\* a load of a sheet of two rows and no numeric column
C2_Witness ==
    /\ LoadReturned
    /\ \E n \in LoadedSheets :
          /\ ~HasNumericColumn(Normalized(n))
          /\ Len(Normalized(n).rows) = 2
          /\ Len(FactsOf(n)) = 2

\* C8: no cell of a normalized sheet written by the transform stage is null.
C8_NoNullCell ==
    \A n \in SheetNames :
        files.processed[n].exists =>
            \A i \in 1..Len(files.processed[n].rows) :
                \A j \in 1..Len(files.processed[n].cols) :
                    ~IsNull(files.processed[n].rows[i][j])

\* the sum of the numeric cells of the wide sheet, row by row
RECURSIVE WideSum(_, _)
WideSum(df, P) ==
    IF P = {} THEN 0
    ELSE LET p == CHOOSE q \in P : TRUE
             c == df.rows[p[1]][p[2]]
         IN (IF c.k = "null" THEN 0 ELSE c.n) + WideSum(df, P \ {p})

\* the row of budget.budget_summary the last load inserted for sheet n
SummaryOfSheet(n) == SelectSeq(Added("budget_summary"), LAMBDA r : r.sheet_name = n)

\* C9: for every sheet with a numeric column, total_budget_amount is the sum
\* of the numeric cells of the wide sheet, and it is the sum of budget_amount
\* over the fact rows of the sheet when the reshaping excluded no cell.
C9_TotalIsWideSum ==
    LoadReturned =>
        \A n \in LoadedSheets :
            HasNumericColumn(Normalized(n)) =>
                /\ Len(SummaryOfSheet(n)) = 1
                /\ SummaryOfSheet(n)[1].total_budget_amount =
                       WideSum(Normalized(n), NumericPositions(Normalized(n)))
                /\ NonZeroPositions(Normalized(n)) = NumericPositions(Normalized(n)) =>
                       SummaryOfSheet(n)[1].total_budget_amount =
                           SumSeq([x \in 1..Len(FactsOf(n)) |-> FactsOf(n)[x].budget_amount])

\* a load of a sheet with two numeric columns and two rows, no cell excluded
C9_Witness ==
    /\ LoadReturned
    /\ \E n \in LoadedSheets :
          /\ Cardinality(NumericPositions(Normalized(n))) = 4
          /\ NonZeroPositions(Normalized(n)) = NumericPositions(Normalized(n))
          /\ SummaryOfSheet(n)[1].total_budget_amount = 10

\* the position of sheet n in the order the loader processes the sheets
SheetPosition(n) ==
    CHOOSE k \in 1..Len(xcom.transformed_data[1]) :
        xcom.transformed_data[1][k].sheet_name = n

PersistenceFailed == result.error.at \in {"facts", "summary"}

\* the audit row that reflects how the last load ended
ReflectsOutcome(row) ==
    IF result.outcome = "returned"
    THEN /\ row.status = "SUCCESS"
         /\ row.records_processed = <<Len(Added("budget_data"))>>
    ELSE /\ row.status = "FAILED"
         /\ row.error_message = <<result.error>>

\* C3 (as claimed): every invocation of the loader adds exactly one audit
\* row, SUCCESS with the records-processed count when it returned, FAILED
\* with the error message when a fact or summary insert failed.
C3_ExactlyOneAuditRow ==
    result.task = "load_data" =>
        /\ Len(Added("etl_audit")) = 1
        /\ (result.outcome = "returned" \/ PersistenceFailed) =>
               ReflectsOutcome(Added("etl_audit")[1])

\* C3 (amended): an invocation that returned, or that raised because a fact
\* or summary insert failed, attempts one audit INSERT; it adds exactly one
\* audit row, reflecting the outcome, when that INSERT succeeds and none when
\* it fails.
C3_OneAuditRowUnlessInsertFails ==
    (result.task = "load_data" /\ (result.outcome = "returned" \/ PersistenceFailed)) =>
        /\ result.swallowed \in {0, 1}
        /\ Len(Added("etl_audit")) = 1 - result.swallowed
        /\ \A x \in 1..Len(Added("etl_audit")) : ReflectsOutcome(Added("etl_audit")[x])

\* a load that raised on a failed insert and left its FAILED audit row
C3_Witness ==
    /\ LoadRaised
    /\ PersistenceFailed
    /\ Len(Added("etl_audit")) = 1
    /\ Added("etl_audit")[1].status = "FAILED"
    /\ Added("etl_audit")[1].error_message = <<result.error>>

\* the insert that fault f lets fail is one the loader makes: a summary
\* insert, or a fact insert of a sheet whose db_df is not empty
InsertFails(f) ==
    \/ f.at = "summary"
    \/ /\ f.at = "facts"
       /\ FactRows(Normalized(xcom.transformed_data[1][f.sheet].sheet_name)) # <<>>

\* how an invocation of the loader in the current state ends when fault f
\* and the audit failures a are let happen
LoadEnds(f, a) ==
    ExceptBlock(TryBlock(db, files, xcom.transformed_data[1], f, a), a).error

\* C4: in every state in which the loader can be invoked, whether the audit
\* INSERT succeeds or fails, the loader raises the error of the failed insert
\* when an insert fails, and returns when no call fails.
C4_AuditNeverDecides ==
    (xcom.transformed_data # <<>> /\ loads < MaxLoads) =>
        \A f \in FaultPoints(Len(workbook)), a \in SUBSET {"SUCCESS", "FAILED"} :
            /\ InsertFails(f) => LoadEnds(f, a) = <<f>>
            /\ f = NoError => LoadEnds(f, a) = <<>>

\* a load raised the error of a failed insert although its FAILED audit INSERT
\* failed, the audit table being there
C4_Witness ==
    /\ LoadRaised
    /\ PersistenceFailed
    /\ result.swallowed = 1
    /\ result.before["etl_audit"] >= 0
    /\ Added("etl_audit") = <<>>

\* the store right after a successful create_database_tables: what the last
\* callable found when it started
FreshBefore == result.before = [t \in TableNames |-> 0]

\* C5: a load that returns right after a load that returned on a freshly
\* initialized schema leaves exactly twice as many fact rows.
C5_SecondLoadDoubles ==
    [][(LoadReturned /\ FreshBefore /\ loads' = loads + 1 /\ result'.outcome = "returned")
          => Len(FactTable') = 2 * Len(FactTable)]_vars

\* two loads returned in a row on an initialized schema and the second one
\* doubled a non-empty fact table
C5_Witness ==
    /\ LoadReturned
    /\ loads = 2
    /\ Len(AuditTable) = 2
    /\ \A x \in 1..Len(AuditTable) : AuditTable[x].status = "SUCCESS"
    /\ result.before["budget_data"] > 0
    /\ Len(FactTable) = 2 * result.before["budget_data"]

\* the schema with its three tables empty and its four indexes
FreshSchema ==
    [schema |-> TRUE, tables |-> [t \in TableNames |-> EmptyTable],
     indexes |-> DOMAIN IndexTable]

\* C6: whatever the store held, a run of create_database_tables that returns
\* leaves the three tables present and empty, and running it again from
\* there changes nothing.
C6_InitializerResets ==
    (result.task = "create_database_tables" /\ result.outcome = "returned") =>
        /\ db = FreshSchema
        /\ Transaction(db, CreateTablesSql) = [ok |-> TRUE, db |-> db]

\* create_database_tables returned on a store whose three tables held rows
C6_Witness ==
    /\ result.task = "create_database_tables"
    /\ result.outcome = "returned"
    /\ \A t \in TableNames : result.before[t] > 0
    /\ db = FreshSchema

\* C7: when the insert of the facts or of the summary of the k-th sheet
\* fails, the loader raises, adds no fact and no summary of a later sheet (and
\* neither the summary nor, when the fact insert failed, the facts of the
\* k-th), writes no report, pushes no load_summary and adds no SUCCESS audit
\* row.
C7_FailureAborts ==
    [][(loads' = loads + 1 /\ result'.error.at \in {"facts", "summary"}) =>
          /\ result'.outcome = "raised"
          /\ files' = files
          /\ xcom' = xcom
          /\ \A x \in Len(FactTable) + 1 .. Len(FactTable') :
                IF result'.error.at = "facts"
                THEN SheetPosition(FactTable'[x].sheet_source) < result'.error.sheet
                ELSE SheetPosition(FactTable'[x].sheet_source) <= result'.error.sheet
          /\ \A x \in Len(SummaryTable) + 1 .. Len(SummaryTable') :
                SheetPosition(SummaryTable'[x].sheet_name) < result'.error.sheet
          /\ \A x \in Len(AuditTable) + 1 .. Len(AuditTable') :
                AuditTable'[x].status # "SUCCESS"]_vars

\* a load raised on the fact insert of the first sheet, persisted nothing, and
\* the second sheet had facts to persist
C7_Witness ==
    /\ LoadRaised
    /\ result.error = Fault("facts", 1)
    /\ Added("budget_data") = <<>>
    /\ Added("budget_summary") = <<>>
    /\ FactRows(Normalized(xcom.transformed_data[1][2].sheet_name)) # <<>>
    /\ files.report = <<>>

\* an expected artifact is missing: a raw or transformed file of a sheet, or
\* the summary report
ArtifactMissing ==
    \/ \E n \in LoadedSheets : ~files.raw[n].exists \/ ~files.processed[n].exists
    \/ files.report = <<>>

\* C10: validate_etl_process returns ERROR when no record was processed,
\* otherwise WARNING when an expected artifact is missing, otherwise SUCCESS.
C10_ValidationStatus ==
    [][ValidateEtlProcess =>
          /\ result'.outcome = "returned"
          /\ result'.value =
                IF xcom.load_summary[1].total_records_processed = 0 THEN "ERROR"
                ELSE IF ArtifactMissing THEN "WARNING"
                ELSE "SUCCESS"]_vars

\* the validation returned ERROR although an artifact was missing
C10_Witness ==
    /\ result.task = "validate_etl"
    /\ result.value = "ERROR"
    /\ ArtifactMissing

\* the aggregate values of a persisted summary row are all 0
ZeroAggregates(row) ==
    /\ row.total_budget_amount = 0
    /\ row.max_budget_item = 0
    /\ row.min_budget_item = 0
    /\ row.average_budget_item.num = 0

\* the sheet_summary of sheet n kept in budget_summary_report.json
ReportedSummary(n) ==
    SelectSeq(files.report[1].sheets_summary, LAMBDA r : r.sheet_name = n)

\* C11 (as claimed): for every sheet without numeric columns the persisted
\* summary has total, max, min and mean equal to 0 and total_records equal
\* to 0.
C11_ZeroAggregatesZeroRecords ==
    LoadReturned =>
        \A n \in LoadedSheets :
            ~HasNumericColumn(Normalized(n)) =>
                /\ Len(SummaryOfSheet(n)) = 1
                /\ ZeroAggregates(SummaryOfSheet(n)[1])
                /\ SummaryOfSheet(n)[1].total_records = 0

\* C11 (amended): for every sheet without numeric columns the persisted
\* summary has total, max, min and mean equal to 0 and total_records equal
\* to the number of rows of the sheet; the count that is 0 is
\* numeric_columns_count, kept in the summary report.
C11_ZeroAggregatesRowCount ==
    LoadReturned =>
        \A n \in LoadedSheets :
            ~HasNumericColumn(Normalized(n)) =>
                /\ Len(SummaryOfSheet(n)) = 1
                /\ ZeroAggregates(SummaryOfSheet(n)[1])
                /\ SummaryOfSheet(n)[1].total_records = Len(Normalized(n).rows)
                /\ Len(ReportedSummary(n)) = 1
                /\ ReportedSummary(n)[1].numeric_columns_count = 0
                /\ ReportedSummary(n)[1].total_records = Len(Normalized(n).rows)

\* a load persisted the summary of a sheet of two rows and no numeric column
C11_Witness ==
    /\ LoadReturned
    /\ \E n \in LoadedSheets :
          /\ ~HasNumericColumn(Normalized(n))
          /\ Len(Normalized(n).rows) = 2
          /\ Len(SummaryOfSheet(n)) = 1
          /\ SummaryOfSheet(n)[1].total_records = 2
          /\ ZeroAggregates(SummaryOfSheet(n)[1])

\* the keywords of the column-role heuristic, by role
AmountWords == {"amount", "budget", "cost", "expense", "revenue", "income"}
CategoryWords == {"category", "type"}
OtherRoleWords == {"item", "description", "department", "dept", "code", "account"}

Matches(col, words) == \E x \in 1..Len(col) : col[x] \in words

\* the (row, numeric column) pairs that emit a fact row, rows outermost and
\* columns left to right: the order of the fact rows of the sheet
EmittingPairs(df) ==
    LET cols == Ascending({j \in 1..Len(df.cols) :
                              \E i \in 1..Len(df.rows) : <<i, j>> \in NumericPositions(df)})
        pairs == Flatten([i \in 1..Len(df.rows) |-> [x \in 1..Len(cols) |-> <<i, cols[x]>>]])
    IN SelectSeq(pairs, LAMBDA p : p \in NonZeroPositions(df))

\* C12 (as claimed): a fact row emitted from a numeric column has the
\* category "budget_category" when the name of the column matched the
\* category/type keywords of the heuristic, and "General" for every other
\* column, those matching the amount, item, department or account-code
\* keywords included.
C12_CategoryOnlyForCategoryColumns ==
    LoadReturned =>
        \A n \in LoadedSheets :
            LET df == Normalized(n)
                pairs == EmittingPairs(df)
            IN pairs # <<>> =>
                  /\ Len(FactsOf(n)) = Len(pairs)
                  /\ \A x \in 1..Len(pairs) :
                        FactsOf(n)[x].budget_category =
                            IF ~Matches(df.cols[pairs[x][2]], AmountWords)
                               /\ Matches(df.cols[pairs[x][2]], CategoryWords)
                            THEN "budget_category" ELSE "General"

\* C12 (amended): a fact row emitted from a numeric column has for category
\* the role name the heuristic gives the column, whichever of the five roles
\* it is (the first in priority order whose keywords the name matches), and
\* "General" only when the name matches no keyword.
C12_CategoryIsColumnRole ==
    LoadReturned =>
        \A n \in LoadedSheets :
            LET df == Normalized(n)
                pairs == EmittingPairs(df)
            IN pairs # <<>> =>
                  /\ Len(FactsOf(n)) = Len(pairs)
                  /\ \A x \in 1..Len(pairs) :
                        LET col == df.cols[pairs[x][2]]
                            cat == FactsOf(n)[x].budget_category
                        IN /\ Matches(col, AmountWords) => cat = "budget_amount"
                           /\ (~Matches(col, AmountWords) /\ Matches(col, CategoryWords))
                                  => cat = "budget_category"
                           /\ (~Matches(col, AmountWords) /\ ~Matches(col, CategoryWords)
                                 /\ Matches(col, {"dept", "department"})
                                 /\ ~Matches(col, {"item", "description"}))
                                  => cat = "department"
                           /\ ~Matches(col, AmountWords \cup CategoryWords \cup OtherRoleWords)
                                  => cat = "General"
                           /\ cat = "General"
                                  => ~Matches(col, AmountWords \cup CategoryWords
                                                     \cup OtherRoleWords)

\* a load emitted, from one sheet, a fact row of an amount column with the
\* category "budget_amount" and one of a type column with "budget_category"
C12_Witness ==
    /\ LoadReturned
    /\ \E n \in LoadedSheets :
          /\ Len(EmittingPairs(Normalized(n))) >= 2
          /\ \E x, y \in 1..Len(FactsOf(n)) :
                /\ FactsOf(n)[x].budget_category = "budget_amount"
                /\ FactsOf(n)[x].budget_item.col = <<"amount">>
                /\ FactsOf(n)[y].budget_category = "budget_category"
                /\ FactsOf(n)[y].budget_item.col = <<"type">>

\* the rows table t held are still its first rows, unchanged, after the step
RowsKept(t) ==
    /\ Len(db'.tables[t].rows) >= Len(db.tables[t].rows)
    /\ SubSeq(db'.tables[t].rows, 1, Len(db.tables[t].rows)) = db.tables[t].rows
    /\ db.tables[t].exists => db'.tables[t].exists

\* the rows the step appended to table t
Appended(t) ==
    SubSeq(db'.tables[t].rows, Len(db.tables[t].rows) + 1, Len(db'.tables[t].rows))

\* the fact rows and the summary rows of the first m sheets handed to the loader
FactsOfFirst(m) ==
    Flatten([x \in 1..m |-> FactRows(Normalized(xcom.transformed_data[1][x].sheet_name))])

SummariesOfFirst(m) ==
    [x \in 1..m |-> SummaryRow(SheetSummary(xcom.transformed_data[1][x].sheet_name,
                                            Normalized(xcom.transformed_data[1][x].sheet_name)))]

\* C13: an invocation of the loader removes and changes no row the fact,
\* summary and audit tables held, and when it fails on the insert of the
\* facts or of the summary of sheet k, the facts and summaries of the sheets
\* before k (and the facts of sheet k when its summary insert failed) are in
\* the tables.
C13_AppendOnlyNoRollback ==
    [][(loads' = loads + 1) =>
          /\ \A t \in TableNames : RowsKept(t)
          /\ result'.error.at = "facts" =>
                /\ Appended("budget_data") = FactsOfFirst(result'.error.sheet - 1)
                /\ Appended("budget_summary") = SummariesOfFirst(result'.error.sheet - 1)
          /\ result'.error.at = "summary" =>
                /\ Appended("budget_data") = FactsOfFirst(result'.error.sheet)
                /\ Appended("budget_summary") = SummariesOfFirst(result'.error.sheet - 1)]_vars

\* a load raised on the summary insert of the second sheet of tables that
\* held rows: the facts of both sheets and the summary of the first were added
C13_Witness ==
    /\ LoadRaised
    /\ result.error = Fault("summary", 2)
    /\ result.before["budget_data"] > 0
    /\ result.before["budget_summary"] > 0
    /\ Len(FactTable) = result.before["budget_data"] + 2
    /\ Len(Added("budget_summary")) = 1
    /\ {Added("budget_data")[x].sheet_source : x \in 1..2} = {"S1", "S2"}

====
